---- MODULE Spec2Model ----
(***************************************************************************)
(* Model of the Telegram expense bot (src/index.ts).                       *)
(*                                                                         *)
(* The store (Supabase) is the only shared state: the users relation with  *)
(* its custom_categories list, the pending_expenses relation (one row per  *)
(* telegram_user_id) and the append-only expense relation.  Every inbound  *)
(* update is handled by an async handler; a handler is suspended at each   *)
(* awaited store request, so one action of the model is one store request  *)
(* of one handler together with the synchronous code that follows it up to *)
(* the next request.  Several handlers are in flight at once.              *)
(*                                                                         *)
(* Store errors: the Supabase client does not throw, it returns            *)
(* {data, error}.  The model lets every mutating request (upsert, insert,  *)
(* delete, update) fail without effect; reads succeed.                     *)
(***************************************************************************)
EXTENDS Integers, Sequences, FiniteSets, TLC

\* ---------------------------------------------------------------- bounds
MaxTicks == 1       \* the clock advances at most this many times
TickLen == 3        \* by this much each time: longer than Hour
MaxPending == 2     \* at most this many pending_expenses rows are written
MaxLedger == 2      \* at most this many expense rows are inserted
MaxCustom == 2      \* at most this many custom categories per user
MaxExpenses == 1    \* expenses entered next to the category management

\* ------------------------------------------------------------- constants
Hour == 2           \* 60 * 60 * 1000 ms, the clock's unit being 30 minutes

Users == {"u1", "u2"}

\* the slots of the handlers in flight
Handlers == {1, 2}

DEFAULT_CATEGORIES ==
  << "Food", "Transport", "Housing", "Entertainment", "Shopping", "Healthcare",
     "Education", "Work", "Travel", "Bills", "Gifts", "Other" >>

\* JavaScript null / undefined
Null == [null |-> TRUE]
Undefined == "undefined"

\* ------------------------------------------------------------- inputs
\* Message texts, as sequences of characters.
Texts == { <<"1", " ", "a">>,             \* "1 a"
           <<"2", ".", "5", " ", "b">>,   \* "2.5 b"
           <<"a">>,                       \* no number
           <<"0", " ", "a">>,             \* zero amount
           <<"1", " ", " ">> }            \* whitespace after the number

\* The text after "/add", words joined by one blank and trimmed ("" when
\* the command has no argument; "Food" stands for a default's label).
CategoryArgs == {"", "A", "B", "Food"}

Commands == {"start", "expenses", "day", "month", "categories", "remove"}

\* The index of a remove_<index> callback: parseInt of what follows "remove_"
\* in the callback data, which the client sends (-1 stands for the data that
\* no button of the bot carries: a negative number, or no number, NaN).
RemoveIndexes == -1 .. MaxCustom

\* ------------------------------------------------------------- state
VARIABLES
  now,        \* the clock (Date.now() and the store's now())
  custom,     \* users.custom_categories, per telegram_user_id
  pending,    \* pending_expenses row per telegram_user_id, or Null
  ledger,     \* the expense relation, in insertion order
  keyboard,   \* the category list rendered in the user's last prompt, or Null
  nextSeq,    \* number of the next pending_expenses write (row version)
  handlers,   \* the handler running in each slot: its position and locals
  reply       \* what the step just taken told the user, or Null

vars == << now, custom, pending, ledger, keyboard, nextSeq, handlers, reply >>

Idle == [pc |-> "idle"]

\* a new update is handled in the first free slot
Free(h) ==
  /\ handlers[h] = Idle
  /\ \A g \in Handlers : g < h => handlers[g] # Idle

\* the handler goes on to its next request
Set(h, rec) ==
  /\ handlers' = [handlers EXCEPT ![h] = rec]
  /\ reply' = Null

\* the handler answers the user and ends
Done(h, msg) ==
  /\ handlers' = [handlers EXCEPT ![h] = Idle]
  /\ reply' = msg

Msg(kind, user, outcome) == [kind |-> kind, user |-> user, outcome |-> outcome]

\* ------------------------------------------------------------- helpers
\* array[i] of JavaScript: zero-based, undefined outside the array
At(list, i) == IF i \in 0 .. (Len(list) - 1) THEN list[i + 1] ELSE Undefined

\* Array.prototype.includes
Includes(list, x) == \E i \in 1 .. Len(list) : list[i] = x

\* Array.prototype.filter((_, i) => i !== index)
FilterIndex(list, index) ==
  LET keep == { i \in 1 .. Len(list) : i - 1 # index }
      F[i \in 0 .. Len(list)] ==
        IF i = 0 THEN << >>
        ELSE IF i \in keep THEN Append(F[i - 1], list[i]) ELSE F[i - 1]
  IN F[Len(list)]

\* getOrCreateUser: the user's row (created on first contact with an empty
\* custom_categories, which the callers read as []).
getOrCreateUser(u) == [id |-> u, custom_categories |-> custom[u]]

getUserCategories(u) == DEFAULT_CATEGORIES \o getOrCreateUser(u).custom_categories

\* ------------------------------------------------------------- parser
IsDigit(c) == c \in {"0", "1", "2", "3", "4", "5", "6", "7", "8", "9"}

DigitVal(c) ==
  CASE c = "0" -> 0 [] c = "1" -> 1 [] c = "2" -> 2 [] c = "3" -> 3
    [] c = "4" -> 4 [] c = "5" -> 5 [] c = "6" -> 6 [] c = "7" -> 7
    [] c = "8" -> 8 [] c = "9" -> 9

IsSpace(c) == c = " "

\* length of the longest run of characters satisfying P that starts at from
RECURSIVE RunLen(_, _, _)
RunLen(text, from, digits) ==
  IF from > Len(text) THEN 0
  ELSE IF (IF digits THEN IsDigit(text[from]) ELSE IsSpace(text[from]))
       THEN 1 + RunLen(text, from + 1, digits)
       ELSE 0

RECURSIVE IntVal(_)
IntVal(ds) ==
  IF Len(ds) = 0 THEN 0
  ELSE 10 * IntVal(SubSeq(ds, 1, Len(ds) - 1)) + DigitVal(ds[Len(ds)])

\* String.prototype.trim
RECURSIVE Trim(_)
Trim(s) ==
  IF Len(s) = 0 THEN s
  ELSE IF IsSpace(s[1]) THEN Trim(Tail(s))
  ELSE IF IsSpace(s[Len(s)]) THEN Trim(SubSeq(s, 1, Len(s) - 1))
  ELSE s

\* parseExpenseInput: /^(\d+(?:\.\d{1,2})?)\s+(.+)$/ , amounts in cents
parseExpenseInput(text) ==
  LET n == Len(text)
      d == RunLen(text, 1, TRUE)
      p == d + 1
      fd == IF p <= n /\ text[p] = "." THEN RunLen(text, p + 1, TRUE) ELSE 0
      \* the fraction takes one or two digits and must be followed by \s
      frac == IF fd \in {1, 2} THEN fd ELSE 0
      q == IF frac > 0 THEN p + 1 + frac ELSE p
      w == RunLen(text, q, FALSE)
      r == q + w
      \* \s+ gives its last character back to .+ when nothing follows it
      matched == d >= 1 /\ w >= 1 /\ (r <= n \/ w >= 2)
      rest == IF r <= n THEN SubSeq(text, r, n) ELSE SubSeq(text, n, n)
      cents == IF frac = 0 THEN 0
               ELSE IF frac = 1 THEN 10 * DigitVal(text[p + 1])
               ELSE IntVal(SubSeq(text, p + 1, p + 2))
      amount == 100 * IntVal(SubSeq(text, 1, d)) + cents
  IN IF ~matched THEN Null
     ELSE IF amount <= 0 THEN Null
     ELSE [amount |-> amount, description |-> Trim(rest)]

\* ------------------------------------------------------------- initial state
Init ==
  /\ now = 0
  /\ custom = [u \in Users |-> << >>]
  /\ pending = [u \in Users |-> Null]
  /\ ledger = << >>
  /\ keyboard = [u \in Users |-> Null]
  /\ nextSeq = 1
  /\ handlers = [h \in Handlers |-> Idle]
  /\ reply = Null

\* time passes
Tick ==
  /\ now < MaxTicks * TickLen
  /\ now' = now + TickLen
  /\ reply' = Null
  /\ UNCHANGED << custom, pending, ledger, keyboard, nextSeq, handlers >>


\* ------------------------------------------------------------- message:text
\* the row the pending_expenses upsert leaves: amount and description are
\* replaced, created_at is not part of the payload and keeps its value when
\* the row exists (the column default now() applies to a new row only)
UpsertPendingMerged(u, parsed) ==
  IF pending[u] = Null
  THEN [amount |-> parsed.amount, description |-> parsed.description,
        created_at |-> now, seq |-> nextSeq, written_at |-> now]
  ELSE [pending[u] EXCEPT !.amount = parsed.amount, !.seq = nextSeq,
                          !.written_at = now]

\* (seq and written_at are not columns: they record which write left the
\* row, and when)
UpsertPending(u, parsed) ==
  [amount |-> parsed.amount,
   description |-> parsed.description,
   created_at |-> IF pending[u] = Null THEN now ELSE pending[u].created_at,
   seq |-> nextSeq,
   written_at |-> now]

\* bot.on("message:text"): parse, then the pending_expenses upsert, whose
\* result is not looked at
MessageText(h, u, text, ok) ==
  LET parsed == parseExpenseInput(text) IN
  /\ Free(h)
  /\ IF parsed = Null
     THEN /\ ok
          /\ Done(h, Msg("text", u, "usage_hint"))
          /\ UNCHANGED << pending, nextSeq >>
     ELSE /\ pending' = IF ok THEN [pending EXCEPT ![u] = UpsertPending(u, parsed)]
                        ELSE pending
          /\ nextSeq' = IF ok THEN nextSeq + 1 ELSE nextSeq
          /\ Set(h, [pc |-> "text_keyboard", user |-> u, parsed |-> parsed,
                     stored |-> ok])
  /\ UNCHANGED << now, custom, ledger, keyboard >>

\* createCategoryKeyboard and the reply with the prompt
MessagePrompt(h) ==
  LET l == handlers[h] IN
  /\ l.pc = "text_keyboard"
  /\ keyboard' = [keyboard EXCEPT ![l.user] = getUserCategories(l.user)]
  /\ Done(h, [kind |-> "text", user |-> l.user, outcome |-> "prompt",
              stored |-> l.stored])
  /\ UNCHANGED << now, custom, pending, ledger, nextSeq >>

\* ------------------------------------------------------------- cat_<index>
\* the tokens of the user's last prompt (the first default and every custom
\* category are sampled)
CatTokens(u) ==
  IF keyboard[u] = Null THEN {}
  ELSE { i \in 0 .. (Len(keyboard[u]) - 1) : i = 0 \/ i >= Len(DEFAULT_CATEGORIES) }

\* callback cat_<index>: getOrCreateUser and the read of the pending row
CategoryCallback(h, u, categoryIndex) ==
  /\ Free(h)
  /\ categoryIndex \in CatTokens(u)
  /\ IF pending[u] = Null
     THEN Done(h, Msg("cat", u, "session_expired"))
     ELSE Set(h, [pc |-> "cat_categories", user |-> u,
                  categoryIndex |-> categoryIndex,
                  pending |-> [amount |-> pending[u].amount,
                               description |-> pending[u].description,
                               seq |-> pending[u].seq]])
  /\ UNCHANGED << now, custom, pending, ledger, keyboard, nextSeq >>

CategoryResolveCached(h) ==
  LET l == handlers[h] IN
  /\ l.pc = "cat_categories"
  /\ Set(h, [pc |-> "cat_commit", user |-> l.user,
             categoryIndex |-> l.categoryIndex, pending |-> l.pending,
             category |-> At(keyboard[l.user], l.categoryIndex),
             cutoff |-> now - Hour,
             todo |-> {"insert", "delete", "sweep"},
             insertError |-> FALSE])
  /\ UNCHANGED << now, custom, pending, ledger, keyboard, nextSeq >>

\* getUserCategories, categories[categoryIndex], and the three requests of
\* Promise.all are issued (the sweep's cutoff is computed here)
CategoryResolve(h) ==
  LET l == handlers[h] IN
  /\ l.pc = "cat_categories"
  /\ Set(h, [pc |-> "cat_commit", user |-> l.user,
             categoryIndex |-> l.categoryIndex, pending |-> l.pending,
             category |-> At(getUserCategories(l.user), l.categoryIndex),
             cutoff |-> now - Hour,
             todo |-> {"insert", "delete", "sweep"},
             insertError |-> FALSE])
  /\ UNCHANGED << now, custom, pending, ledger, keyboard, nextSeq >>

\* the expense row of the insert
ExpenseRow(l) ==
  [user_id |-> l.user, amount |-> l.pending.amount,
   description |-> l.pending.description, category |-> l.category,
   src |-> l.pending.seq]

\* supabase.from("expense").insert(...)
ExpenseInsert(h, ok) ==
  LET l == handlers[h] IN
  /\ l.pc = "cat_commit"
  /\ "insert" \in l.todo
  /\ ledger' = IF ok THEN Append(ledger, ExpenseRow(l)) ELSE ledger
  /\ Set(h, [l EXCEPT !.todo = @ \ {"insert"}, !.insertError = ~ok])
  /\ UNCHANGED << now, custom, pending, keyboard, nextSeq >>

\* supabase.from("pending_expenses").delete().eq("telegram_user_id", ...)
PendingDelete(h, ok) ==
  LET l == handlers[h] IN
  /\ l.pc = "cat_commit"
  /\ "delete" \in l.todo
  /\ pending' = IF ok THEN [pending EXCEPT ![l.user] = Null] ELSE pending
  /\ Set(h, [l EXCEPT !.todo = @ \ {"delete"}])
  /\ UNCHANGED << now, custom, ledger, keyboard, nextSeq >>

SweepRowsNewer(rows, cutoff) ==
  [u \in Users |->
     IF rows[u] # Null /\ rows[u].created_at > cutoff THEN Null ELSE rows[u]]

\* the rows left by delete().lt("created_at", cutoff)
SweepRows(rows, cutoff) ==
  [u \in Users |->
     IF rows[u] # Null /\ rows[u].created_at < cutoff THEN Null ELSE rows[u]]

\* supabase.from("pending_expenses").delete().lt("created_at", now - 1h)
StaleSweep(h, ok) ==
  LET l == handlers[h] IN
  /\ l.pc = "cat_commit"
  /\ "sweep" \in l.todo
  /\ pending' = IF ok THEN SweepRows(pending, l.cutoff) ELSE pending
  /\ Set(h, [l EXCEPT !.todo = @ \ {"sweep"}])
  /\ UNCHANGED << now, custom, ledger, keyboard, nextSeq >>

\* all three requests have settled: the prompt is edited
CategoryReply(h) ==
  LET l == handlers[h] IN
  /\ l.pc = "cat_commit"
  /\ l.todo = {}
  /\ Done(h, [kind |-> "cat", user |-> l.user,
              outcome |-> IF l.insertError THEN "save_failed" ELSE "saved",
              src |-> l.pending.seq])
  /\ UNCHANGED << now, custom, pending, ledger, keyboard, nextSeq >>

\* ------------------------------------------------------------- /add
\* bot.command("add"): the help text, or getOrCreateUser
AddCommand(h, u, args) ==
  /\ Free(h)
  /\ IF args = ""
     THEN Done(h, Msg("add", u, "add_help"))
     ELSE Set(h, [pc |-> "add_check", user |-> u, categoryText |-> args,
                  currentCustom |-> getOrCreateUser(u).custom_categories])
  /\ UNCHANGED << now, custom, pending, ledger, keyboard, nextSeq >>

\* getUserCategories and the duplicate check
AddCheck(h) ==
  LET l == handlers[h] IN
  /\ l.pc = "add_check"
  /\ IF Includes(getUserCategories(l.user), l.categoryText)
     THEN Done(h, Msg("add", l.user, "already_exists"))
     ELSE Set(h, [pc |-> "add_update", user |-> l.user,
                  categoryText |-> l.categoryText,
                  updatedCustom |-> Append(l.currentCustom, l.categoryText)])
  /\ UNCHANGED << now, custom, pending, ledger, keyboard, nextSeq >>

AddUpdateUnscoped(h, ok) ==
  LET l == handlers[h] IN
  /\ l.pc = "add_update"
  /\ custom' = IF ok THEN [u \in Users |-> l.updatedCustom] ELSE custom
  /\ Done(h, [kind |-> "add", user |-> l.user,
              outcome |-> IF ok THEN "added" ELSE "add_failed",
              label |-> l.categoryText])
  /\ UNCHANGED << now, pending, ledger, keyboard, nextSeq >>

\* update({custom_categories: updatedCustom}).eq("telegram_user_id", ...)
AddUpdate(h, ok) ==
  LET l == handlers[h] IN
  /\ l.pc = "add_update"
  /\ custom' = IF ok THEN [custom EXCEPT ![l.user] = l.updatedCustom] ELSE custom
  /\ Done(h, [kind |-> "add", user |-> l.user,
              outcome |-> IF ok THEN "added" ELSE "add_failed",
              label |-> l.categoryText])
  /\ UNCHANGED << now, pending, ledger, keyboard, nextSeq >>

\* ------------------------------------------------------------- remove_<index>
\* callback remove_<index>: getOrCreateUser and the range check
RemoveCallback(h, u, categoryIndex) ==
  LET customCategories == getOrCreateUser(u).custom_categories IN
  /\ Free(h)
  /\ IF categoryIndex >= Len(customCategories)
     THEN Done(h, Msg("remove_index", u, "invalid_category"))
     ELSE Set(h, [pc |-> "remove_update", user |-> u,
                  categoryToRemove |-> At(customCategories, categoryIndex),
                  updatedCustom |-> FilterIndex(customCategories, categoryIndex)])
  /\ UNCHANGED << now, custom, pending, ledger, keyboard, nextSeq >>

RemoveUpdateRelabels(h, ok) ==
  LET l == handlers[h] IN
  /\ l.pc = "remove_update"
  /\ custom' = IF ok THEN [custom EXCEPT ![l.user] = l.updatedCustom] ELSE custom
  /\ ledger' = [i \in 1 .. Len(ledger) |->
                  IF ok /\ ledger[i].category = l.categoryToRemove
                  THEN [ledger[i] EXCEPT !.category = Undefined]
                  ELSE ledger[i]]
  /\ Done(h, [kind |-> "remove_index", user |-> l.user,
              outcome |-> IF ok THEN "removed" ELSE "remove_failed",
              label |-> l.categoryToRemove])
  /\ UNCHANGED << now, pending, keyboard, nextSeq >>

\* update({custom_categories: updatedCustom}).eq("telegram_user_id", ...)
RemoveUpdate(h, ok) ==
  LET l == handlers[h] IN
  /\ l.pc = "remove_update"
  /\ custom' = IF ok THEN [custom EXCEPT ![l.user] = l.updatedCustom] ELSE custom
  /\ Done(h, [kind |-> "remove_index", user |-> l.user,
              outcome |-> IF ok THEN "removed" ELSE "remove_failed",
              label |-> l.categoryToRemove])
  /\ UNCHANGED << now, pending, ledger, keyboard, nextSeq >>

\* callback cancel_remove
CancelRemove(h, u) ==
  /\ Free(h)
  /\ Done(h, Msg("cancel_remove", u, "cancelled"))
  /\ UNCHANGED << now, custom, pending, ledger, keyboard, nextSeq >>

CommandResets(h, u, c) ==
  /\ Free(h)
  /\ pending' = [pending EXCEPT ![u] = Null]
  /\ Done(h, Msg(c, u, "replied"))
  /\ UNCHANGED << now, custom, ledger, keyboard, nextSeq >>

\* /start, /expenses, /day, /month, /categories, /remove: reads and a reply
Command(h, u, c) ==
  /\ Free(h)
  /\ Done(h, Msg(c, u, "replied"))
  /\ UNCHANGED << now, custom, pending, ledger, keyboard, nextSeq >>

\* ------------------------------------------------------------- specification
\* selection handlers that may still insert an expense row
Inserting ==
  { g \in Handlers :
      \/ handlers[g].pc = "cat_categories"
      \/ handlers[g].pc = "cat_commit" /\ "insert" \in handlers[g].todo }

\* the bounds on what is still handled
MayWrite(max) == nextSeq <= max
MaySelect(max) == Len(ledger) + Cardinality(Inserting) < max
MayAdd(u) == Len(custom[u]) < MaxCustom

\* a category change (/add, remove_<index>) or a selection is in flight
CategoryFlow ==
  \E g \in Handlers : handlers[g].pc \in {"add_check", "add_update", "remove_update"}
SelectionFlow ==
  \E g \in Handlers : handlers[g].pc \in {"cat_categories", "cat_commit"}

\* The expense flow of one user: texts and category selections overlapping,
\* every mutating store request failing or not.  The clock stands still.
NextSession ==
  \/ \E h \in Handlers, text \in Texts, ok \in BOOLEAN :
       MayWrite(MaxPending) /\ MessageText(h, "u1", text, ok)
  \/ \E h \in Handlers : MessagePrompt(h)
  \/ \E h \in Handlers : MaySelect(MaxLedger) /\ CategoryCallback(h, "u1", 0)
  \/ \E h \in Handlers : CategoryResolve(h)
  \/ \E h \in Handlers, ok \in BOOLEAN : ExpenseInsert(h, ok)
  \/ \E h \in Handlers, ok \in BOOLEAN : PendingDelete(h, ok)
  \/ \E h \in Handlers, ok \in BOOLEAN : StaleSweep(h, ok)
  \/ \E h \in Handlers : CategoryReply(h)

SpecSession == Init /\ [][NextSession]_vars

\* The expense flow of two users while the clock advances: one well-formed
\* text, the writes of the pending row and the sweep failing or not.
SweepText == <<"1", " ", "a">>

NextSweep ==
  \/ Tick
  \/ \E h \in Handlers, u \in Users, ok \in BOOLEAN :
       MayWrite(MaxPending) /\ MessageText(h, u, SweepText, ok)
  \/ \E h \in Handlers : MessagePrompt(h)
  \/ \E h \in Handlers, u \in Users :
       MaySelect(MaxExpenses) /\ CategoryCallback(h, u, 0)
  \/ \E h \in Handlers : CategoryResolve(h)
  \/ \E h \in Handlers : ExpenseInsert(h, TRUE)
  \/ \E h \in Handlers : PendingDelete(h, TRUE)
  \/ \E h \in Handlers, ok \in BOOLEAN : StaleSweep(h, ok)
  \/ \E h \in Handlers : CategoryReply(h)

SpecSweep == Init /\ [][NextSweep]_vars

\* One user's selections next to the changes of the category list: one
\* selection and one change of the list at a time, overlapping each other and
\* the texts.  The clock stands still; of the store requests only the insert
\* of the expense row may fail.
ResolveArgs == {"A", "B"}

NextResolve ==
  \/ \E h \in Handlers :
       MayWrite(MaxExpenses) /\ MessageText(h, "u1", SweepText, TRUE)
  \/ \E h \in Handlers : MessagePrompt(h)
  \/ \E h \in Handlers, i \in 0 .. (Len(DEFAULT_CATEGORIES) + MaxCustom) :
       ~SelectionFlow /\ MaySelect(MaxExpenses) /\ CategoryCallback(h, "u1", i)
  \/ \E h \in Handlers : CategoryResolve(h)
  \/ \E h \in Handlers, ok \in BOOLEAN : ExpenseInsert(h, ok)
  \/ \E h \in Handlers : PendingDelete(h, TRUE)
  \/ \E h \in Handlers : StaleSweep(h, TRUE)
  \/ \E h \in Handlers : CategoryReply(h)
  \/ \E h \in Handlers, args \in ResolveArgs :
       ~CategoryFlow /\ MayAdd("u1") /\ AddCommand(h, "u1", args)
  \/ \E h \in Handlers : AddCheck(h)
  \/ \E h \in Handlers : AddUpdate(h, TRUE)
  \/ \E h \in Handlers, i \in RemoveIndexes :
       ~CategoryFlow /\ RemoveCallback(h, "u1", i)
  \/ \E h \in Handlers : RemoveUpdate(h, TRUE)

SpecResolve == Init /\ [][NextResolve]_vars

\* One user's commands and category management next to the texts: /add,
\* remove_<index>, cancel_remove and the commands overlapping, the updates of
\* custom_categories failing or not.
CategoryTexts == { <<"1", " ", "a">>, <<"a">> }
CommandArgs == {"", "A", "Food"}

NextCommands ==
  \/ \E h \in Handlers, text \in CategoryTexts :
       MayWrite(MaxExpenses) /\ MessageText(h, "u1", text, TRUE)
  \/ \E h \in Handlers : MessagePrompt(h)
  \/ \E h \in Handlers, args \in CommandArgs :
       (args = "" \/ MayAdd("u1")) /\ AddCommand(h, "u1", args)
  \/ \E h \in Handlers : AddCheck(h)
  \/ \E h \in Handlers, ok \in BOOLEAN : AddUpdate(h, ok)
  \/ \E h \in Handlers, i \in RemoveIndexes : RemoveCallback(h, "u1", i)
  \/ \E h \in Handlers, ok \in BOOLEAN : RemoveUpdate(h, ok)
  \/ \E h \in Handlers : CancelRemove(h, "u1")
  \/ \E h \in Handlers, c \in Commands : Command(h, "u1", c)

SpecCommands == Init /\ [][NextCommands]_vars

\* One user's /add commands alone, overlapping.
NextAdds ==
  \/ \E h \in Handlers, args \in CategoryArgs :
       (args = "" \/ MayAdd("u1")) /\ AddCommand(h, "u1", args)
  \/ \E h \in Handlers : AddCheck(h)
  \/ \E h \in Handlers, ok \in BOOLEAN : AddUpdate(h, ok)

SpecAdds == Init /\ [][NextAdds]_vars

\* Two users side by side while the clock advances: both send texts, the
\* first selects categories, the second adds and removes custom categories;
\* one selection and one change of the list at a time, overlapping each other
\* and the texts.  No store request fails.
UsersArg == "A"

NextUsers ==
  \/ Tick
  \/ \E h \in Handlers, u \in Users :
       MayWrite(MaxPending) /\ MessageText(h, u, SweepText, TRUE)
  \/ \E h \in Handlers : MessagePrompt(h)
  \/ \E h \in Handlers :
       ~SelectionFlow /\ MaySelect(MaxExpenses) /\ CategoryCallback(h, "u1", 0)
  \/ \E h \in Handlers : CategoryResolve(h)
  \/ \E h \in Handlers : ExpenseInsert(h, TRUE)
  \/ \E h \in Handlers : PendingDelete(h, TRUE)
  \/ \E h \in Handlers : StaleSweep(h, TRUE)
  \/ \E h \in Handlers : CategoryReply(h)
  \/ \E h \in Handlers :
       ~CategoryFlow /\ MayAdd("u2") /\ AddCommand(h, "u2", UsersArg)
  \/ \E h \in Handlers : AddCheck(h)
  \/ \E h \in Handlers : AddUpdate(h, TRUE)
  \/ \E h \in Handlers, i \in RemoveIndexes :
       ~CategoryFlow /\ RemoveCallback(h, "u2", i)
  \/ \E h \in Handlers : RemoveUpdate(h, TRUE)

SpecUsers == Init /\ [][NextUsers]_vars

\* ============================================================= claims
\* a step in which a handler leaves Idle for position pc
Enters(h, pc) == handlers[h] = Idle /\ handlers'[h].pc = pc

\* the selection handlers other than h that hold version seq of a pending row
OtherHolders(h, seq) ==
  { g \in Handlers \ {h} :
      /\ handlers[g].pc \in {"cat_categories", "cat_commit"}
      /\ handlers[g].pending.seq = seq }

Committed(seq) == \E i \in 1 .. Len(ledger) : ledger[i].src = seq

\* C1 (as claimed; the code violates it): the ledger never holds two expense
\* rows that come from the same pending row, however two selection events of
\* the user interleave.
C1_AtMostOneCommit ==
  \A i, j \in 1 .. Len(ledger) : ledger[i].src = ledger[j].src => i = j

\* C2 (as claimed; the code violates it): when a selection event ends with
\* the failure of its insert, the user's pending row is still there.
C2_NoPartialCommit ==
  (reply # Null /\ reply.outcome = "save_failed") => pending[reply.user] # Null

\* C3 (as claimed; the code violates it): a selection event that arrives
\* after the commit of a pending row has ended, with no expense text in
\* between, does not find that row any more.
C3_LaterSelectionExpired ==
  [][\A h \in Handlers :
       Enters(h, "cat_categories") =>
         ~(/\ Committed(handlers'[h].pending.seq)
           /\ OtherHolders(h, handlers'[h].pending.seq) = {})]_vars

C5_NoDuplicateCategory ==
  \A u \in Users :
    LET all == getUserCategories(u) IN
    \A i, j \in 1 .. Len(all) : all[i] = all[j] => i = j

\* C6 (as claimed; the code violates it): the steps of an event that is a
\* user input error change no pending row, no custom category and no expense
\* row.  These are the steps that answer usage hint, category exists or
\* invalid category, the read that precedes the duplicate check, and the
\* steps of a remove_<index> event whose index is no position of the list it
\* read.
UserInputErrors == {"usage_hint", "already_exists", "invalid_category"}

C6_UserInputErrorMutatesNothing ==
  [][(\/ reply' # Null /\ reply'.outcome \in UserInputErrors
      \/ \E h \in Handlers : Enters(h, "add_check")
      \/ \E h \in Handlers :
           /\ handlers'[h] # handlers[h]
           /\ \/ /\ handlers[h].pc = "remove_update"
                 /\ handlers[h].categoryToRemove = Undefined
              \/ /\ handlers'[h].pc = "remove_update"
                 /\ handlers'[h].categoryToRemove = Undefined)
       => UNCHANGED << pending, custom, ledger >>]_vars

\* C7 (as claimed; the code violates it): the category prompt is sent only
\* when the pending row was written.
C7_PromptOnlyIfStored ==
  (reply # Null /\ reply.outcome = "prompt") => reply.stored

\* C8: when the sweep of a selection event has been carried out, no pending
\* row of any user is older than the event's cutoff (one hour before the
\* event issued the sweep).
C8_SweepLeavesNoStaleRow ==
  [][\A h \in Handlers :
       StaleSweep(h, TRUE) =>
         \A u \in Users :
           pending'[u] # Null => ~(pending'[u].created_at < handlers[h].cutoff)]_vars

\* C8, witness: the second user's row was written (its prompt is still to be
\* sent) and is gone after the sweep of the first user's selection.
C8_Witness ==
  \E h, g \in Handlers :
    /\ handlers[h].pc = "text_keyboard" /\ handlers[h].user = "u2"
    /\ handlers[h].stored
    /\ pending["u2"] = Null
    /\ handlers[g].pc = "cat_commit" /\ handlers[g].user = "u1"
    /\ "sweep" \notin handlers[g].todo
    /\ handlers[g].cutoff > 0

C10_CommandsLeaveSession ==
  [][/\ (reply' # Null /\ reply'.kind \in Commands \cup {"cancel_remove"})
          => UNCHANGED << pending, ledger, custom >>
     /\ (\/ reply' # Null /\ reply'.kind \in {"add", "remove_index"}
         \/ \E h \in Handlers :
              /\ handlers'[h] # handlers[h]
              /\ handlers'[h].pc \in {"add_check", "add_update", "remove_update"})
          => UNCHANGED << pending, ledger >>]_vars

\* C10, witness: a custom category was removed while the user's pending row
\* stayed.
C10_Witness ==
  /\ reply # Null
  /\ reply.outcome = "removed"
  /\ pending[reply.user] # Null

\* C11: the expense relation is append-only: every step keeps the rows it
\* held, in their order and with their amount, description, category and
\* owner; adding or removing a custom category changes none of them.
C11_LedgerAppendOnly ==
  [][/\ Len(ledger') >= Len(ledger)
     /\ \A i \in 1 .. Len(ledger) : ledger'[i] = ledger[i]]_vars

\* C11, witness: an expense row carries a custom label that its owner has
\* removed since.
C11_Witness ==
  /\ reply # Null
  /\ reply.outcome = "removed"
  /\ \E i \in 1 .. Len(ledger) :
       /\ ledger[i].category = reply.label
       /\ ledger[i].user_id = reply.user
       /\ ~Includes(custom[reply.user], reply.label)

\* C12 (as claimed; the code violates it): the sweep does not hold back the
\* commit: once the insert of a selection event has succeeded and its own
\* delete is done, the event can report the confirmation, whether the sweep
\* has settled or not.
C12_SweepNeverBlocksCommit ==
  \A h \in Handlers :
    (/\ handlers[h].pc = "cat_commit"
     /\ handlers[h].todo \subseteq {"sweep"}
     /\ ~handlers[h].insertError) => ENABLED CategoryReply(h)

\* C13 (as claimed; the code violates it): every pending row, and every
\* expense row, has a positive amount and a description that is not empty.
C13_RowsWellFormed ==
  /\ \A u \in Users :
       pending[u] # Null =>
         pending[u].amount > 0 /\ pending[u].description # << >>
  /\ \A i \in 1 .. Len(ledger) :
       ledger[i].amount > 0 /\ ledger[i].description # << >>

\* C14 (as claimed; the code violates it): the pending row that the delete
\* of a selection event removes holds the amount and the description the
\* event read and inserts.
C14_DeletesWhatItCommits ==
  [][\A h \in Handlers :
       LET l == handlers[h] IN
       (/\ l.pc = "cat_commit"
        /\ "delete" \in l.todo
        /\ handlers'[h].pc = "cat_commit"
        /\ "delete" \notin handlers'[h].todo
        /\ pending[l.user] # Null
        /\ pending'[l.user] = Null)
         => /\ pending[l.user].amount = l.pending.amount
            /\ pending[l.user].description = l.pending.description]_vars

\* C15 (as claimed; the code violates it): every expense row carries a
\* category label.
C15_CategoryDefined ==
  \A i \in 1 .. Len(ledger) : ledger[i].category # Undefined

\* C16 (as claimed; the code violates it): when a selection event ends after
\* its insert succeeded, the pending row it read is no longer in the store.
C16_CommitClearsPending ==
  (reply # Null /\ reply.kind = "cat" /\ reply.outcome = "saved") =>
    \/ pending[reply.user] = Null
    \/ pending[reply.user].seq # reply.src

\* C17 (as claimed; the code violates it): a sweep deletes no pending row
\* that was written less than one hour before.
C17_SweepSparesFreshWrite ==
  [][\A h \in Handlers :
       StaleSweep(h, TRUE) =>
         \A u \in Users :
           (pending[u] # Null /\ pending'[u] = Null) =>
             ~(now - pending[u].written_at < Hour)]_vars

\* C18 (as claimed; the code violates it): a label leaves the user's custom
\* categories only in the step that reports its removal, and enters them
\* only in the step that reports its addition.
C18_AddsAreDurable ==
  [][\A u \in Users, x \in CategoryArgs :
       /\ (Includes(custom[u], x) /\ ~Includes(custom'[u], x)) =>
            /\ reply' # Null
            /\ reply'.user = u
            /\ reply'.kind = "remove_index" /\ reply'.outcome = "removed"
            /\ reply'.label = x
       /\ (~Includes(custom[u], x) /\ Includes(custom'[u], x)) =>
            /\ reply' # Null
            /\ reply'.user = u
            /\ reply'.kind = "add" /\ reply'.outcome = "added"
            /\ reply'.label = x]_vars

\* list is the list before with the entry at the zero-based index i deleted
\* and the other entries in their order
DeletedAt(before, i, list) ==
  /\ i \in 0 .. (Len(before) - 1)
  /\ Len(list) = Len(before) - 1
  /\ \A j \in 1 .. Len(list) :
       list[j] = IF j <= i THEN before[j] ELSE before[j + 1]

\* C19 (as claimed; the code violates it): a remove_<index> event that goes
\* on to update the list has read a list of which its index is a position:
\* the label it reports is the entry at that position and the list it writes
\* is the list read with exactly that entry deleted; the update writes that
\* list; the answer "invalid category" changes nothing.
C19_RemoveAddressesCustom ==
  [][\A h \in Handlers :
       /\ Enters(h, "remove_update") =>
            LET l == handlers'[h] IN
            \E i \in 0 .. (Len(custom[l.user]) - 1) :
              /\ l.categoryToRemove = custom[l.user][i + 1]
              /\ DeletedAt(custom[l.user], i, l.updatedCustom)
       /\ (/\ handlers[h].pc = "remove_update"
           /\ reply' # Null /\ reply'.outcome = "removed"
           /\ handlers'[h] = Idle) =>
            custom'[handlers[h].user] = handlers[h].updatedCustom
       /\ (reply' # Null /\ reply'.outcome = "invalid_category") =>
            custom' = custom]_vars

\* the users whose event takes the step
Actors ==
  { u \in Users :
      \/ reply' # Null /\ reply'.user = u
      \/ \E h \in Handlers :
           /\ handlers'[h] # handlers[h]
           /\ handlers'[h] # Idle
           /\ handlers'[h].user = u }

\* C20: a step of an event of one user leaves every other user's custom
\* categories as they are, keeps the expense rows there are, appends no
\* expense row owned by another user, and changes another user's pending row
\* only by deleting it in a sweep.
C20_CrossUserIsolation ==
  [][\A a \in Actors : \A b \in Users \ {a} :
       /\ custom'[b] = custom[b]
       /\ Len(ledger') >= Len(ledger)
       /\ \A i \in 1 .. Len(ledger) : ledger'[i] = ledger[i]
       /\ \A i \in (Len(ledger) + 1) .. Len(ledger') : ledger'[i].user_id # b
       /\ pending'[b] # pending[b] =>
            /\ pending'[b] = Null
            /\ \E h \in Handlers :
                 /\ handlers[h].pc = "cat_commit"
                 /\ handlers[h].user = a
                 /\ StaleSweep(h, TRUE)]_vars

\* C20, witness: the second user, who has a custom category and was shown a
\* prompt, has committed nothing and has lost the pending row to the sweep of
\* the first user's selection, whose expense row is in the ledger.
C20_Witness ==
  /\ custom["u2"] # << >>
  /\ keyboard["u2"] # Null
  /\ pending["u2"] = Null
  /\ ledger # << >>
  /\ \A i \in 1 .. Len(ledger) : ledger[i].user_id = "u1"
  /\ \E g \in Handlers :
       /\ handlers[g].pc = "cat_commit" /\ handlers[g].user = "u1"
       /\ "sweep" \notin handlers[g].todo
       /\ handlers[g].cutoff > 0
====
